---- MODULE Spec2Model ----
(***************************************************************************)
(* Cortex (src/app.py): a Streamlit tutoring script backed by a SQLite     *)
(* store.  Every browser session re-runs the script top to bottom on each  *)
(* interaction; the store (tables users and logs) is shared by all         *)
(* sessions, st.session_state is private to one session.                   *)
(*                                                                         *)
(* Two specifications are given.  Spec runs the script in several sessions *)
(* with their store statements interleaved.  ApiSpec calls the three store *)
(* functions directly, one whole call at a time, with arbitrary arguments. *)
(*                                                                         *)
(* Abstractions: the created_at / timestamp columns are left out           *)
(* (datetime.now() is an input no modelled statement reads); an INSERT and *)
(* its commit are one step (SQLite serialises writers, and a reader sees   *)
(* nothing of an uncommitted row); a run's first statements up to the      *)
(* SELECT of get_or_create_user are one step, as they change nothing      *)
(* shared (init_db creates tables only where there are none); a lesson     *)
(* text is represented by the request it answers.  The                     *)
(* key box and the recorder are read by the script at lines 97-105 and     *)
(* 175; what they hold is fixed when the run starts, and client and audio  *)
(* carry it from there.  An uncaught exception ends the run and leaves the *)
(* session alive, as Streamlit does.  Python None, also as a user id or an *)
(* audio, is 0, which no row id and no turn number is.                     *)
(***************************************************************************)
EXTENDS Integers, Sequences, FiniteSets, TLC

(***************************************************************************)
(* Bounds of the model.                                                    *)
(***************************************************************************)
MaxRuns == 2        \* script runs after the sessions' first ones, all sessions
MaxCalls == 4       \* direct calls of the store functions in ApiSpec
MaxUserId == 2      \* largest user id handed to a store function in ApiSpec

Sessions == {"s1", "s2"}
Names == {"", "Student", "Ada"}
Topics == {"Python Basics", "Loops"}
ProviderScores == {80, 150}

(***************************************************************************)
(* Program constants.                                                      *)
(***************************************************************************)
None == 0                           \* Python None / a falsy user_id or audio
DefaultName == "Student"
DefaultTopic == "Python Basics"
DefaultDifficulty == "Beginner"
DefaultMastery == 0
Unset == [unset |-> TRUE]           \* a local variable not assigned yet

(***************************************************************************)
(* The store: SQL statements as operators on tables (sequences of rows in  *)
(* rowid order).                                                           *)
(***************************************************************************)
RECURSIVE MaxRowId(_)
MaxRowId(tbl) ==
    IF tbl = <<>> THEN 0
    ELSE LET m == MaxRowId(Tail(tbl)) IN IF Head(tbl).id > m THEN Head(tbl).id ELSE m

\* INTEGER PRIMARY KEY AUTOINCREMENT: the row id an INSERT assigns.
NextRowId(tbl) == MaxRowId(tbl) + 1

\* Variant: the WHERE clause is missing, the first row is taken.
SelectUserId_any_row(tbl, name) == IF tbl = <<>> THEN None ELSE tbl[1].id

\* SELECT id FROM users WHERE name = ?  followed by fetchone().
SelectUserId(tbl, name) ==
    LET hits == SelectSeq(tbl, LAMBDA r : r.name = name)
    IN  IF hits = <<>> THEN None ELSE hits[1].id

\* Variant: the name column without its UNIQUE constraint.
UniqueOk_unconstrained(tbl, name) == TRUE

\* name TEXT UNIQUE: may a row with this name be inserted?
UniqueOk(tbl, name) == \A i \in 1..Len(tbl) : tbl[i].name # name

\* INSERT INTO users (name, created_at) VALUES (?, ?), committed.
InsertUser(tbl, name) == Append(tbl, [id |-> NextRowId(tbl), name |-> name])

\* Variant: topic and difficulty bound to each other's column.
save_progress_swapped(tbl, uid, topic, diff, sc) ==
    Append(tbl, [id |-> NextRowId(tbl), user_id |-> uid, topic |-> diff,
                 difficulty |-> topic, score |-> sc])

\* Variant: INSERT OR REPLACE keyed by the user, which drops the user's
\* earlier rows.
save_progress_keep_latest(tbl, uid, topic, diff, sc) ==
    Append(SelectSeq(tbl, LAMBDA r : r.user_id # uid),
           [id |-> NextRowId(tbl), user_id |-> uid, topic |-> topic,
            difficulty |-> diff, score |-> sc])

\* save_progress: INSERT INTO logs (...) VALUES (...), committed.  The logs
\* table declares no constraint on user_id.
save_progress(tbl, uid, topic, diff, sc) ==
    Append(tbl, [id |-> NextRowId(tbl), user_id |-> uid, topic |-> topic,
                 difficulty |-> diff, score |-> sc])

RECURSIVE ProjectStats(_)
ProjectStats(rows) ==
    IF rows = <<>> THEN <<>>
    ELSE <<[topic |-> Head(rows).topic, score |-> Head(rows).score]>>
         \o ProjectStats(Tail(rows))

\* Variant: the WHERE clause is missing.
get_user_stats_all_users(tbl, uid) == ProjectStats(tbl)

\* get_user_stats: SELECT topic, score, timestamp FROM logs WHERE user_id = ?
\* The query has no ORDER BY; SQLite scans the table in rowid order.
get_user_stats(tbl, uid) ==
    ProjectStats(SelectSeq(tbl, LAMBDA r : r.user_id = uid))

\* Variant: the id after the one the INSERT assigned.
lastrowid_off_by_one(tbl) == tbl[Len(tbl)].id + 1

\* c.lastrowid after an INSERT.
lastrowid(tbl) == tbl[Len(tbl)].id

\* Variant: the lookup is skipped and a row is created on every call.
get_or_create_user_always_new(tbl, name) ==
    [users |-> InsertUser(tbl, name), ret |-> lastrowid(InsertUser(tbl, name))]

\* get_or_create_user run as one uninterrupted call: the tables after it and
\* the value it returns.
get_or_create_user(tbl, name) ==
    LET found == SelectUserId(tbl, name)
    IN  IF found # None
        THEN [users |-> tbl, ret |-> found]
        ELSE [users |-> InsertUser(tbl, name),
              ret |-> lastrowid(InsertUser(tbl, name))]

(***************************************************************************)
(* The providers' possible answers.                                        *)
(***************************************************************************)
\* json.loads(res.text) of agent_evaluator: a dict that may lack a key.
EvalResponses ==
    {[score |-> sc, feedback |-> "Good"] : sc \in ProviderScores}
    \cup {[feedback |-> "Good"], [score |-> 80]}

\* json.loads(res.text) that is JSON but no object: the Python value is kept
\* by the type it has, and subscripting it with a key raises TypeError.
NonDictResponses ==
    {[nondict |-> ty] : ty \in {"list", "NoneType", "str", "int", "float", "bool"}}

\* json.loads(res.text) of agent_curriculum: move on, stay, or lack a key.
PlanResponses ==
    {[next_topic |-> "Loops", difficulty |-> "Intermediate"],
     [next_topic |-> "Python Basics", difficulty |-> "Beginner"],
     [next_topic |-> "Loops"], [difficulty |-> "Intermediate"]}

\* agent_tutor(topic, difficulty): the lesson text, named by its request.
agent_tutor(topic, diff) == [topic |-> topic, difficulty |-> diff]

\* response.text of transcribe_audio: a text, an empty text, or None.
Transcripts == {[text |-> "A variable stores a value"], [text |-> ""], [none |-> TRUE]}

\* Variant: only None counts as no text (if user_text is not None).
Truthy_not_none(t) == "text" \in DOMAIN t

\* Python truthiness of user_text (line 180: if user_text).
Truthy(t) == "text" \in DOMAIN t /\ t.text # ""

\* text_to_speech: what the call may return for the turn just appended, the
\* audio of the turn (named by its place in the transcript) or, when the
\* speech service fails (line 122), None.
text_to_speech(h) == {Len(h), None}

\* Variant: the lesson put in front of the grade.
full_resp_lesson_first(sc, ev, new_lesson) ==
    <<[lesson |-> new_lesson], [score |-> sc], [feedback |-> ev.feedback]>>

\* Line 199: f"({score}/100 - {eval_result['feedback']}) {new_lesson}", the
\* text as the sequence of its parts from left to right.
full_resp(sc, ev, new_lesson) ==
    <<[score |-> sc], [feedback |-> ev.feedback], [lesson |-> new_lesson]>>

VARIABLES
    users,          \* table users
    logs,           \* table logs
    history,        \* st.session_state.history
    current_topic,  \* st.session_state.current_topic
    difficulty,     \* st.session_state.difficulty
    mastery_score,  \* st.session_state.mastery_score
    last_audio,     \* st.session_state.last_audio (None, or the turn spoken)
    username,       \* script variable username: the sidebar text input
    audio,          \* script variable audio: the recorder returned a recording
    client,         \* script variable client: a client was made from a key
    api_key,        \* the environment holds GEMINI_API_KEY (line 15)
    user_id,        \* script variable user_id
    stats_df,       \* script variable stats_df
    user_text,      \* script variable user_text
    eval_result,    \* script variable eval_result
    score,          \* script variable score
    plan,           \* script variable plan
    pc,             \* per session: where the current run stands
    error,          \* per session: the exception that ended the current run
    trace,          \* per session: provider and store calls of the current cycle
    cycle_start,    \* per session: topic and difficulty when the cycle began
    save_failed,    \* per session: the current run's save_progress raised
    origin,         \* per logs row: the session and the state that wrote it
    runs,           \* number of runs started after the first ones
    api_call,       \* ApiSpec: the last call and its result
    issued,         \* ApiSpec: per name, the ids get_or_create_user returned, in order
    calls           \* ApiSpec: number of calls made

storeVars == <<users, logs>>
sessionVars == <<history, current_topic, difficulty, mastery_score, last_audio>>
widgetVars == <<username, audio, client, api_key>>
localVars == <<user_id, stats_df, user_text, eval_result, score, plan>>
ghostVars == <<trace, cycle_start, save_failed, origin, runs>>
apiVars == <<api_call, issued, calls>>
vars == <<storeVars, sessionVars, widgetVars, localVars, pc, error, ghostVars, apiVars>>

\* Lines 15, 71-112: init_db has created the empty tables and no session has
\* opened the page yet.  The environment holds a key or not; a session
\* starts from the session state defaults of lines 108-112.
Init ==
    /\ users = <<>>
    /\ logs = <<>>
    /\ history = [s \in Sessions |-> <<>>]
    /\ current_topic = [s \in Sessions |-> DefaultTopic]
    /\ difficulty = [s \in Sessions |-> DefaultDifficulty]
    /\ mastery_score = [s \in Sessions |-> DefaultMastery]
    /\ last_audio = [s \in Sessions |-> None]
    /\ username = [s \in Sessions |-> ""]
    /\ audio = [s \in Sessions |-> FALSE]
    /\ client = [s \in Sessions |-> FALSE]
    /\ api_key \in BOOLEAN
    /\ user_id = [s \in Sessions |-> None]
    /\ stats_df = [s \in Sessions |-> <<>>]
    /\ user_text = [s \in Sessions |-> Unset]
    /\ eval_result = [s \in Sessions |-> Unset]
    /\ score = [s \in Sessions |-> None]
    /\ plan = [s \in Sessions |-> Unset]
    /\ pc = [s \in Sessions |-> "new"]
    /\ error = [s \in Sessions |-> "none"]
    /\ trace = [s \in Sessions |-> <<>>]
    /\ cycle_start = [s \in Sessions |-> Unset]
    /\ save_failed = [s \in Sessions |-> FALSE]
    /\ origin = <<>>
    /\ runs = 0
    /\ api_call = [op |-> "none"]
    /\ issued = [n \in Names |-> <<>>]
    /\ calls = 0

(***************************************************************************)
(* One script run of a session, statement by statement.                    *)
(***************************************************************************)
\* An uncaught exception ends the run; Streamlit shows it and the session
\* lives on with whatever the run had already written to its state.
Raise(s, exc) ==
    /\ error' = [error EXCEPT ![s] = exc]
    /\ pc' = [pc EXCEPT ![s] = "done"]

Called(s, call) == trace' = [trace EXCEPT ![s] = Append(@, call)]

\* Lines 97-105: client is made in every run, from the key of the
\* environment or else from the one in the sidebar's key box.
ClientOf(typed) == api_key \/ typed

\* Lines 80-105: a run starts with fresh script variables; the widgets
\* deliver the name typed, the key typed and whether a recording is
\* returned.  init_db (line 72) finds its tables and changes nothing.  With a
\* name, the sidebar calls get_or_create_user, whose SELECT either finds the
\* user or leaves the INSERT to do.
Login(s, n, a, key) ==
    LET found == SelectUserId(users, n)
    IN  /\ \/ /\ username' = [username EXCEPT ![s] = n]
              /\ audio' = [audio EXCEPT ![s] = a]
              /\ client' = [client EXCEPT ![s] = ClientOf(key)]
              /\ user_id' = [user_id EXCEPT ![s] = IF n = "" THEN None ELSE found]
              /\ pc' = [pc EXCEPT ![s] = IF n = "" THEN "greet"
                                         ELSE IF found = None THEN "insert"
                                         ELSE "stats"]
              /\ error' = [error EXCEPT ![s] = "none"]
           \/ \* the store refuses init_db (line 72), before the name box is
              \* read at line 82, or the SELECT of line 41, after it: the run
              \* ends before lines 97-105 and 175
              /\ \E read \in {"", n} : username' = [username EXCEPT ![s] = read]
              /\ audio' = [audio EXCEPT ![s] = FALSE]
              /\ client' = [client EXCEPT ![s] = FALSE]
              /\ user_id' = [user_id EXCEPT ![s] = None]
              /\ Raise(s, "OperationalError")
        /\ stats_df' = [stats_df EXCEPT ![s] = <<>>]
        /\ user_text' = [user_text EXCEPT ![s] = Unset]
        /\ eval_result' = [eval_result EXCEPT ![s] = Unset]
        /\ score' = [score EXCEPT ![s] = None]
        /\ plan' = [plan EXCEPT ![s] = Unset]
        /\ trace' = [trace EXCEPT ![s] = <<>>]
        /\ cycle_start' = [cycle_start EXCEPT ![s] = Unset]
        /\ save_failed' = [save_failed EXCEPT ![s] = FALSE]
        /\ UNCHANGED <<storeVars, sessionVars, api_key, origin, apiVars>>

\* A session opens the page: its first run, with the name box at its
\* default, the key box empty and nothing recorded.
FirstRun(s) ==
    /\ pc[s] = "new"
    /\ Login(s, DefaultName, FALSE, FALSE)
    /\ UNCHANGED runs

\* The user interacts with the page (types a name or a key, clears one,
\* records an answer), which starts a run.
Interact(s) ==
    /\ pc[s] = "idle"
    /\ runs < MaxRuns
    /\ runs' = runs + 1
    /\ \E n \in Names, a \in BOOLEAN, key \in BOOLEAN : Login(s, n, a, key)

\* Lines 46-53: the SELECT found nothing, so get_or_create_user INSERTs.
\* The UNIQUE constraint makes the INSERT raise when the name was stored
\* since, and the store may refuse the write (database is locked).
Insert(s) ==
    /\ pc[s] = "insert"
    /\ \/ /\ UniqueOk(users, username[s])
          /\ users' = InsertUser(users, username[s])
          /\ user_id' = [user_id EXCEPT ![s] = lastrowid(users')]
          /\ pc' = [pc EXCEPT ![s] = "stats"]
          /\ UNCHANGED error
       \/ /\ ~UniqueOk(users, username[s])
          /\ Raise(s, "IntegrityError")
          /\ UNCHANGED <<users, user_id>>
       \/ /\ Raise(s, "OperationalError")
          /\ UNCHANGED <<users, user_id>>
    /\ IF pc'[s] = "done"
       THEN \* the run ends at line 85: lines 97-105 and 175 are never reached
            /\ client' = [client EXCEPT ![s] = FALSE]
            /\ audio' = [audio EXCEPT ![s] = FALSE]
       ELSE UNCHANGED <<client, audio>>
    /\ UNCHANGED <<logs, sessionVars, username, api_key, stats_df, user_text,
                   eval_result, score, plan, ghostVars, apiVars>>

\* Lines 86-90: back from get_or_create_user, the sidebar reads the chart of
\* the user with get_user_stats, on a connection of its own.
Stats(s) ==
    /\ pc[s] = "stats"
    /\ \/ /\ stats_df' = [stats_df EXCEPT ![s] = get_user_stats(logs, user_id[s])]
          /\ pc' = [pc EXCEPT ![s] = "greet"]
          /\ UNCHANGED <<error, client, audio>>
       \/ \* the read is refused by the store: the run ends at line 90
          /\ Raise(s, "OperationalError")
          /\ client' = [client EXCEPT ![s] = FALSE]
          /\ audio' = [audio EXCEPT ![s] = FALSE]
          /\ UNCHANGED stats_df
    /\ UNCHANGED <<storeVars, sessionVars, username, api_key, user_id, user_text,
                   eval_result, score, plan, ghostVars, apiVars>>


\* Line 177: the cycle runs only with a recording and a client.
AfterGreet(s) == IF audio[s] /\ client[s] THEN "transcribe" ELSE "done"

\* Variant: the greeting is not tied to an empty transcript.
NeedsGreeting_every_run(s) == client[s]

\* Line 160: if not st.session_state.history and client.
NeedsGreeting(s) == history[s] = <<>> /\ client[s]

\* Lines 160-163: the initial greeting.
Greet(s) ==
    /\ pc[s] = "greet"
    /\ \/ /\ NeedsGreeting(s)
          /\ LET lesson == agent_tutor(current_topic[s], difficulty[s])
                 h == Append(history[s], [role |-> "assistant",
                                          content |-> [lesson |-> lesson]])
             IN  /\ history' = [history EXCEPT ![s] = h]
                 /\ \E spoken \in text_to_speech(h) :
                        last_audio' = [last_audio EXCEPT ![s] = spoken]
          /\ pc' = [pc EXCEPT ![s] = AfterGreet(s)]
          /\ UNCHANGED <<error, audio>>
       \/ \* agent_tutor raises: the run ends at line 161, before the
          \* recorder of line 175 is read
          /\ NeedsGreeting(s)
          /\ Raise(s, "ProviderError")
          /\ audio' = [audio EXCEPT ![s] = FALSE]
          /\ UNCHANGED <<history, last_audio>>
       \/ /\ ~NeedsGreeting(s)
          /\ pc' = [pc EXCEPT ![s] = AfterGreet(s)]
          /\ UNCHANGED <<history, last_audio, error, audio>>
    /\ UNCHANGED <<storeVars, current_topic, difficulty, mastery_score, username,
                   client, api_key, localVars, ghostVars, apiVars>>

\* Lines 179-181: transcribe the recording; go on only with a usable text.
Transcribe(s) ==
    /\ pc[s] = "transcribe"
    /\ cycle_start' = [cycle_start EXCEPT ![s] =
                         [topic |-> current_topic[s], difficulty |-> difficulty[s]]]
    /\ Called(s, [op |-> "transcribe_audio", args |-> <<>>])
    /\ \/ /\ Raise(s, "ProviderError")
          /\ UNCHANGED <<history, user_text>>
       \/ \E text \in Transcripts :
             /\ user_text' = [user_text EXCEPT ![s] = text]
             /\ IF Truthy(text)
                THEN /\ history' = [history EXCEPT ![s] =
                                      Append(@, [role |-> "user", content |-> text])]
                     /\ pc' = [pc EXCEPT ![s] = "evaluate"]
                     /\ UNCHANGED error
                ELSE /\ pc' = [pc EXCEPT ![s] = "done"]
                     /\ UNCHANGED <<history, error>>
    /\ UNCHANGED <<storeVars, current_topic, difficulty, mastery_score, last_audio,
                   widgetVars, user_id, stats_df, eval_result, score, plan,
                   save_failed, origin, runs, apiVars>>

\* Variant: the curriculum is asked before the score is saved.
AfterEvaluate_adapt_first(s) == "adapt"

\* What json.loads(res.text) raises on a response it cannot decode: a text
\* that is no JSON, no text at all (res.text is None), a nesting deeper than
\* the interpreter's recursion limit, a number longer than its digit limit.
UndecodableErrors == {"JSONDecodeError", "TypeError", "RecursionError", "ValueError"}

\* Line 189: if user_id, the score is saved before the curriculum is asked.
AfterEvaluate(s) == IF user_id[s] # None THEN "save" ELSE "adapt"

\* Lines 184-186, 189: evaluate the answer and keep its score.
Evaluate(s) ==
    /\ pc[s] = "evaluate"
    /\ Called(s, [op |-> "agent_evaluator", args |-> <<current_topic[s]>>])
    /\ \/ \* generate_content raises (line 140)
          /\ Raise(s, "ProviderError")
          /\ UNCHANGED <<eval_result, score, mastery_score>>
       \/ \* json.loads (line 141) raises on the text it is given
          /\ \E exc \in UndecodableErrors : Raise(s, exc)
          /\ UNCHANGED <<eval_result, score, mastery_score>>
       \/ \E r \in EvalResponses :
             /\ eval_result' = [eval_result EXCEPT ![s] = r]
             /\ IF "score" \in DOMAIN r
                THEN /\ score' = [score EXCEPT ![s] = r.score]
                     /\ mastery_score' = [mastery_score EXCEPT ![s] = r.score]
                     /\ pc' = [pc EXCEPT ![s] = AfterEvaluate(s)]
                     /\ UNCHANGED error
                ELSE /\ Raise(s, "KeyError")
                     /\ UNCHANGED <<score, mastery_score>>
       \/ \* the response is JSON but no object: line 185 raises
          \E r \in NonDictResponses :
             /\ eval_result' = [eval_result EXCEPT ![s] = r]
             /\ Raise(s, "TypeError")
             /\ UNCHANGED <<score, mastery_score>>
    /\ UNCHANGED <<storeVars, history, current_topic, difficulty, last_audio,
                   widgetVars, user_id, stats_df, user_text, plan, cycle_start,
                   save_failed,
                   origin, runs, apiVars>>

\* Line 190: save_progress(user_id, current_topic, difficulty, score).  The
\* call is not guarded: an error of the store ends the run.
Save(s) ==
    /\ pc[s] = "save"
    /\ Called(s, [op |-> "save_progress",
                  args |-> <<user_id[s], current_topic[s], difficulty[s], score[s]>>])
    /\ \/ /\ logs' = save_progress(logs, user_id[s], current_topic[s],
                                   difficulty[s], score[s])
          /\ origin' = Append(origin, [session |-> s, name |-> username[s],
                                       topic |-> current_topic[s],
                                       difficulty |-> difficulty[s],
                                       score |-> mastery_score[s]])
          /\ pc' = [pc EXCEPT ![s] = "adapt"]
          /\ UNCHANGED <<error, save_failed>>
       \/ /\ save_failed' = [save_failed EXCEPT ![s] = TRUE]
          /\ Raise(s, "OperationalError")
          /\ UNCHANGED <<logs, origin>>
    /\ UNCHANGED <<users, sessionVars, widgetVars, localVars, cycle_start, runs,
                   apiVars>>

\* Lines 193-195: ask the curriculum and adopt its plan, one key at a time.
Adapt(s) ==
    /\ pc[s] = "adapt"
    /\ Called(s, [op |-> "agent_curriculum", args |-> <<score[s], current_topic[s]>>])
    /\ \/ \* generate_content raises (line 147)
          /\ Raise(s, "ProviderError")
          /\ UNCHANGED <<plan, current_topic, difficulty>>
       \/ \* json.loads (line 148) raises on the text it is given
          /\ \E exc \in UndecodableErrors : Raise(s, exc)
          /\ UNCHANGED <<plan, current_topic, difficulty>>
       \/ \E p \in PlanResponses :
             /\ plan' = [plan EXCEPT ![s] = p]
             /\ IF "next_topic" \notin DOMAIN p
                THEN /\ Raise(s, "KeyError")
                     /\ UNCHANGED <<current_topic, difficulty>>
                ELSE /\ current_topic' = [current_topic EXCEPT ![s] = p.next_topic]
                     /\ IF "difficulty" \notin DOMAIN p
                        THEN /\ Raise(s, "KeyError")
                             /\ UNCHANGED difficulty
                        ELSE /\ difficulty' = [difficulty EXCEPT ![s] = p.difficulty]
                             /\ pc' = [pc EXCEPT ![s] = "teach"]
                             /\ UNCHANGED error
       \/ \* the response is JSON but no object: line 194 raises
          \E p \in NonDictResponses :
             /\ plan' = [plan EXCEPT ![s] = p]
             /\ Raise(s, "TypeError")
             /\ UNCHANGED <<current_topic, difficulty>>
    /\ UNCHANGED <<storeVars, history, mastery_score, last_audio, widgetVars,
                   user_id, stats_df, user_text, eval_result, score, cycle_start,
                   save_failed,
                   origin, runs, apiVars>>

\* Lines 198-203: the next lesson, the tutor turn, its audio, st.rerun().
Teach(s) ==
    /\ pc[s] = "teach"
    /\ Called(s, [op |-> "agent_tutor", args |-> <<current_topic[s], difficulty[s]>>])
    /\ \/ /\ Raise(s, "ProviderError")
          /\ UNCHANGED <<history, last_audio>>
       \/ /\ "feedback" \notin DOMAIN eval_result[s]
          /\ Raise(s, "KeyError")
          /\ UNCHANGED <<history, last_audio>>
       \/ /\ "feedback" \in DOMAIN eval_result[s]
          /\ LET new_lesson == agent_tutor(current_topic[s], difficulty[s])
                 h == Append(history[s],
                             [role |-> "assistant",
                              content |-> full_resp(score[s], eval_result[s], new_lesson)])
             IN  /\ history' = [history EXCEPT ![s] = h]
                 /\ \E spoken \in text_to_speech(h) :
                        last_audio' = [last_audio EXCEPT ![s] = spoken]
          /\ pc' = [pc EXCEPT ![s] = "rerun"]
          /\ UNCHANGED error
    /\ UNCHANGED <<storeVars, current_topic, difficulty, mastery_score, widgetVars,
                   localVars, cycle_start, save_failed, origin, runs, apiVars>>

\* st.rerun() (line 203): the script starts over with the widgets as they
\* are; the recorder may or may not hand the recording out again.
Rerun(s) ==
    /\ pc[s] = "rerun"
    /\ runs < MaxRuns
    /\ runs' = runs + 1
    /\ \E a \in BOOLEAN : Login(s, username[s], a, client[s])

\* The run has reached the end of the script or was ended by an exception:
\* its script variables are gone, st.session_state stays.
Finish(s) ==
    /\ pc[s] = "done"
    /\ pc' = [pc EXCEPT ![s] = "idle"]
    /\ username' = [username EXCEPT ![s] = ""]
    /\ audio' = [audio EXCEPT ![s] = FALSE]
    /\ client' = [client EXCEPT ![s] = FALSE]
    /\ user_id' = [user_id EXCEPT ![s] = None]
    /\ stats_df' = [stats_df EXCEPT ![s] = <<>>]
    /\ user_text' = [user_text EXCEPT ![s] = Unset]
    /\ eval_result' = [eval_result EXCEPT ![s] = Unset]
    /\ score' = [score EXCEPT ![s] = None]
    /\ plan' = [plan EXCEPT ![s] = Unset]
    /\ error' = [error EXCEPT ![s] = "none"]
    /\ trace' = [trace EXCEPT ![s] = <<>>]
    /\ cycle_start' = [cycle_start EXCEPT ![s] = Unset]
    /\ save_failed' = [save_failed EXCEPT ![s] = FALSE]
    /\ UNCHANGED <<storeVars, sessionVars, api_key, origin, runs, apiVars>>

Next ==
    \E s \in Sessions :
        \/ FirstRun(s)
        \/ Interact(s)
        \/ Insert(s)
        \/ Stats(s)
        \/ Greet(s)
        \/ Transcribe(s)
        \/ Evaluate(s)
        \/ Save(s)
        \/ Adapt(s)
        \/ Teach(s)
        \/ Rerun(s)
        \/ Finish(s)

Spec == Init /\ [][Next]_vars

(***************************************************************************)
(* The store functions called directly, one whole call at a time.          *)
(***************************************************************************)
ApiScores == {80, 150}

ApiInit == Init /\ ~api_key

ApiGetOrCreateUser(n) ==
    /\ calls < MaxCalls
    /\ LET r == get_or_create_user(users, n)
       IN  /\ users' = r.users
           /\ api_call' = [op |-> "get_or_create_user", name |-> n, ret |-> r.ret]
           /\ issued' = [issued EXCEPT ![n] = Append(@, r.ret)]
    /\ calls' = calls + 1
    /\ UNCHANGED <<logs, sessionVars, widgetVars, localVars, pc, error, ghostVars>>

ApiSaveProgress(uid, topic, sc) ==
    /\ calls < MaxCalls
    /\ logs' = save_progress(logs, uid, topic, DefaultDifficulty, sc)
    /\ origin' = Append(origin, [session |-> "api", user_id |-> uid, topic |-> topic,
                                 difficulty |-> DefaultDifficulty, score |-> sc])
    /\ api_call' = [op |-> "save_progress", user_id |-> uid, topic |-> topic,
                    score |-> sc]
    /\ calls' = calls + 1
    /\ UNCHANGED <<users, issued, sessionVars, widgetVars, localVars, pc, error,
                   trace, cycle_start, save_failed, runs>>

ApiGetUserStats(uid) ==
    /\ calls < MaxCalls
    /\ api_call' = [op |-> "get_user_stats", user_id |-> uid,
                    ret |-> get_user_stats(logs, uid)]
    /\ calls' = calls + 1
    /\ UNCHANGED <<storeVars, issued, sessionVars, widgetVars, localVars, pc, error,
                   ghostVars>>

ApiNext ==
    \/ \E n \in Names : ApiGetOrCreateUser(n)
    \/ \E uid \in 1..MaxUserId, topic \in Topics, sc \in ApiScores :
          ApiSaveProgress(uid, topic, sc)
    \/ \E uid \in 1..MaxUserId : ApiGetUserStats(uid)

ApiSpec == ApiInit /\ [][ApiNext]_vars

TypeOK ==
    /\ \A s \in Sessions : pc[s] \in {"new", "idle", "insert", "stats", "greet",
            "transcribe", "evaluate", "save", "adapt", "teach", "rerun", "done"}
    /\ runs \in 0..MaxRuns
    /\ Len(origin) = Len(logs)

(***************************************************************************)
(* Properties.                                                             *)
(***************************************************************************)
RowsNamed(n) == {i \in 1..Len(users) : users[i].name = n}

\* C1: sequential get_or_create_user(name) calls return the same id each
\* time, that id is the id of the one users row with the name, and a call
\* for a name that was asked for before leaves the users table unchanged.
C1_SameIdOnlyFirstInserts ==
    /\ [](\A n \in Names :
            issued[n] # <<>> =>
                /\ \A k \in 1..Len(issued[n]) : issued[n][k] = issued[n][1]
                /\ Cardinality(RowsNamed(n)) = 1
                /\ \A i \in RowsNamed(n) : users[i].id = issued[n][1])
    /\ [][(/\ api_call'.op = "get_or_create_user"
           /\ calls' = calls + 1
           /\ issued[api_call'.name] # <<>>) => users' = users]_vars

C1_Witness ==
    /\ Len(issued["Ada"]) >= 2
    /\ Len(issued["Student"]) >= 1
    /\ api_call.op = "get_or_create_user"
    /\ api_call.name = "Ada"
    /\ api_call.ret = 2

\* C2: whatever the interleaving of the sessions' SELECT and INSERT steps,
\* the users table never holds two rows with the same name.
C2_AtMostOneRowPerName ==
    \A n \in Names : Cardinality(RowsNamed(n)) <= 1

\* Two sessions both missed the name in their SELECT and one INSERT lost.
C2_Witness ==
    \E s \in Sessions : \E t \in Sessions \ {s} :
        /\ pc[s] = "done" /\ error[s] = "IntegrityError"
        /\ username[t] = username[s]
        /\ user_id[t] # None
        /\ Cardinality(RowsNamed(username[s])) = 1

RECURSIVE SavedFor(_, _)
SavedFor(saves, uid) ==
    IF saves = <<>> THEN <<>>
    ELSE (IF Head(saves).user_id = uid
          THEN <<[topic |-> Head(saves).topic, score |-> Head(saves).score]>>
          ELSE <<>>) \o SavedFor(Tail(saves), uid)

\* C3: every get_user_stats(userId) returns exactly the (topic, score) pairs
\* of the save_progress calls made for that user so far, in the order of the
\* calls; for a user without entries that is the empty sequence.
C3_StatsAreTheSavesInOrder ==
    api_call.op = "get_user_stats" =>
        api_call.ret = SavedFor(origin, api_call.user_id)

C3_Witness ==
    /\ api_call.op = "get_user_stats"
    /\ Len(api_call.ret) = 2
    /\ api_call.ret[1] # api_call.ret[2]
    /\ Len(logs) = 3
    /\ logs[2].user_id # api_call.user_id

\* C4: every stored score and every session's last score lies in [0,100],
\* whatever the evaluation returned.
C4_ScoresWithinRange ==
    /\ \A i \in 1..Len(logs) : logs[i].score \in 0..100
    /\ \A s \in Sessions : mastery_score[s] \in 0..100

\* C5: a run whose save_progress failed still goes on to ask the curriculum.
C5_SaveFailureDoesNotEndCycle ==
    \A s \in Sessions :
        (save_failed[s] /\ pc[s] \in {"done", "rerun"}) =>
            \E i \in 1..Len(trace[s]) : trace[s][i].op = "agent_curriculum"

EmptyOrAbsent(t) == t = [text |-> ""] \/ t = [none |-> TRUE]

\* C6: a cycle whose transcription is empty or absent leaves the session state
\* and the logs as they were, calls no evaluation, curriculum or lesson
\* provider, and ends the run without an error, ready for the next recording.
C6_EmptyTranscriptChangesNothing ==
    [][\A s \in Sessions :
         (pc[s] = "transcribe" /\ EmptyOrAbsent(user_text'[s])) =>
            /\ history'[s] = history[s]
            /\ current_topic'[s] = current_topic[s]
            /\ difficulty'[s] = difficulty[s]
            /\ mastery_score'[s] = mastery_score[s]
            /\ last_audio'[s] = last_audio[s]
            /\ logs' = logs
            /\ \A i \in 1..Len(trace'[s]) :
                  trace'[s][i].op \notin {"agent_evaluator", "agent_curriculum",
                                          "agent_tutor", "save_progress"}
            /\ pc'[s] = "done"
            /\ error'[s] = "none"]_vars

\* An empty transcription in the cycle after a completed one.
C6_Witness ==
    \E s \in Sessions :
        /\ pc[s] = "done" /\ EmptyOrAbsent(user_text[s])
        /\ Len(history[s]) = 3
        /\ current_topic[s] = "Loops"
        /\ mastery_score[s] = 150

SavesOf(s) == SelectSeq(trace[s], LAMBDA c : c.op = "save_progress")

\* C7: with a bound user, the cycle writes one entry carrying the user, the
\* topic and difficulty the cycle began with and the evaluation's score, and
\* afterwards topic and difficulty are the curriculum's.  From ("Python
\* Basics", "Beginner") with score 80 and plan ("Loops", "Intermediate") the
\* store gains the one entry ("Python Basics", "Beginner", 80) and the session
\* ends at ("Loops", "Intermediate").
C7_EntryCarriesCycleStart ==
    /\ [](\A s \in Sessions :
            pc[s] \in {"teach", "rerun"} =>
                /\ current_topic[s] = plan[s].next_topic
                /\ difficulty[s] = plan[s].difficulty
                /\ user_id[s] # None => Len(SavesOf(s)) = 1)
    /\ [](\A s \in Sessions :
            (/\ pc[s] = "rerun" /\ user_id[s] # None /\ Len(history[s]) = 3
             /\ cycle_start[s] = [topic |-> "Python Basics", difficulty |-> "Beginner"]
             /\ eval_result[s].score = 80
             /\ plan[s] = [next_topic |-> "Loops", difficulty |-> "Intermediate"]) =>
                /\ current_topic[s] = "Loops" /\ difficulty[s] = "Intermediate"
                /\ Cardinality({i \in 1..Len(logs) : origin[i].session = s}) = 1
                /\ \A i \in 1..Len(logs) :
                      origin[i].session = s =>
                          /\ logs[i].user_id = user_id[s]
                          /\ logs[i].topic = "Python Basics"
                          /\ logs[i].difficulty = "Beginner"
                          /\ logs[i].score = 80)
    /\ [][\A s \in Sessions :
            (pc[s] = "save" /\ pc'[s] = "adapt") =>
                /\ Len(logs') = Len(logs) + 1
                /\ SubSeq(logs', 1, Len(logs)) = logs
                /\ logs'[Len(logs')].user_id = user_id[s]
                /\ logs'[Len(logs')].topic = cycle_start[s].topic
                /\ logs'[Len(logs')].difficulty = cycle_start[s].difficulty
                /\ logs'[Len(logs')].score = eval_result[s].score]_vars

C7_Witness ==
    \E s \in Sessions :
        /\ pc[s] = "rerun" /\ user_id[s] # None /\ Len(history[s]) = 3
        /\ cycle_start[s] = [topic |-> "Python Basics", difficulty |-> "Beginner"]
        /\ eval_result[s].score = 80
        /\ plan[s] = [next_topic |-> "Loops", difficulty |-> "Intermediate"]
        /\ Len(logs) = 1

UserIdOfName(n) == users[CHOOSE i \in RowsNamed(n) : TRUE].id

\* C8: every logs row carries the id of the user named in the session that
\* wrote it and that session's topic, difficulty and score; rows written
\* under different names carry different user ids.
C8_EntriesAttributedToTheirSession ==
    \A i \in 1..Len(logs) :
        /\ RowsNamed(origin[i].name) # {}
        /\ logs[i].user_id = UserIdOfName(origin[i].name)
        /\ logs[i].topic = origin[i].topic
        /\ logs[i].difficulty = origin[i].difficulty
        /\ logs[i].score = origin[i].score
        /\ \A j \in 1..Len(logs) :
              origin[j].name # origin[i].name => logs[j].user_id # logs[i].user_id

\* Two sessions under different names have both written, the second while
\* the first was still in its cycle.
C8_Witness ==
    \E s \in Sessions : \E t \in Sessions \ {s} :
        /\ Len(logs) = 2
        /\ origin[1].session = s /\ origin[2].session = t
        /\ origin[1].name # origin[2].name
        /\ pc[s] \in {"adapt", "teach"}
        /\ pc[t] \in {"adapt", "teach"}
        /\ origin[1].score # origin[2].score

\* C9: the user_id of every logs row is the id of a users row.
C9_EntriesReferenceExistingUsers ==
    \A i \in 1..Len(logs) : \E j \in 1..Len(users) : users[j].id = logs[i].user_id

C9_Witness ==
    /\ Len(users) = 2
    /\ Len(logs) = 2
    /\ logs[1].user_id # logs[2].user_id

\* C10: save_progress with a user id that no users row has leaves the logs
\* table unchanged.
C10_UnknownUserIsRejected ==
    [][(/\ api_call'.op = "save_progress"
        /\ calls' = calls + 1
        /\ \A j \in 1..Len(users) : users[j].id # api_call'.user_id) =>
            logs' = logs]_vars

CalledOp(s, op) == \E i \in 1..Len(trace[s]) : trace[s][i].op = op

Malformed(r) == r # Unset /\ ("score" \notin DOMAIN r \/ "feedback" \notin DOMAIN r)

\* C11: a cycle whose evaluation came back without a score, without a
\* feedback or undecodable is aborted before the persistence write: it adds
\* no logs row.
C11_MalformedEvaluationWritesNothing ==
    \A s \in Sessions :
        (\/ Malformed(eval_result[s])
         \/ (error[s] \in UndecodableErrors /\ eval_result[s] = Unset))
        => SavesOf(s) = <<>>

\* C12: a cycle that ends in a failure of the curriculum or of the lesson
\* provider leaves current_topic and difficulty as they were when the cycle
\* began; the topic is never updated without the difficulty.
C12_FailedAdaptLeavesTopicAndDifficulty ==
    \A s \in Sessions :
        (pc[s] = "done" /\ error[s] # "none" /\ CalledOp(s, "agent_curriculum"))
        => /\ current_topic[s] = cycle_start[s].topic
           /\ difficulty[s] = cycle_start[s].difficulty

\* C13: without a client every run is a no-op for the tutoring state and the
\* login keeps working.  A run that has no client and has not failed finds
\* the history empty and topic, difficulty, last score and last audio at
\* their initial values, has called no provider, and, with a name typed and
\* get_or_create_user behind it, holds the id of the users row of that name;
\* and the INSERT of a run without a client, unless the store refuses the
\* write, ends get_or_create_user with that id and no exception.
C13_NoClientIsNoOp ==
    /\ [](\A s \in Sessions :
            (pc[s] \notin {"new", "idle"} /\ ~client[s] /\ error[s] = "none") =>
                /\ history[s] = <<>>
                /\ current_topic[s] = DefaultTopic
                /\ difficulty[s] = DefaultDifficulty
                /\ mastery_score[s] = DefaultMastery
                /\ last_audio[s] = None
                /\ trace[s] = <<>>
                /\ (pc[s] \in {"stats", "greet", "done"} /\ username[s] # "")
                   => /\ RowsNamed(username[s]) # {}
                      /\ user_id[s] = UserIdOfName(username[s]))
    /\ [][\A s \in Sessions :
            (/\ pc[s] = "insert" /\ ~client[s]
             /\ pc'[s] # "insert" /\ error'[s] # "OperationalError") =>
                /\ error'[s] = "none"
                /\ \E j \in 1..Len(users') :
                       /\ users'[j].name = username[s]
                       /\ users'[j].id = user_id'[s]]_vars

OpsOf(s) == [i \in 1..Len(trace[s]) |-> trace[s][i].op]

IsPrefix(a, b) == Len(a) <= Len(b) /\ a = SubSeq(b, 1, Len(a))

\* The calls of a cycle in their order, with and without a bound user.
CycleOrder(bound) ==
    IF bound
    THEN <<"transcribe_audio", "agent_evaluator", "save_progress",
           "agent_curriculum", "agent_tutor">>
    ELSE <<"transcribe_audio", "agent_evaluator", "agent_curriculum", "agent_tutor">>

\* C14: the calls of a cycle are made in the order transcribe, evaluate,
\* persistence write, curriculum, lesson, each after the effect of the one
\* before: the learner turn is in the history when the evaluation is asked,
\* the last score is set and the cycle's logs row is committed (or the write
\* has failed) when the curriculum is asked, and the tutor turn follows the
\* lesson call.
C14_CallsInFixedOrder ==
    \A s \in Sessions :
        /\ IsPrefix(OpsOf(s), CycleOrder(user_id[s] # None))
        /\ CalledOp(s, "agent_evaluator") =>
              \E k \in 1..Len(history[s]) :
                  /\ k >= Len(history[s]) - 1
                  /\ history[s][k] = [role |-> "user", content |-> user_text[s]]
        /\ CalledOp(s, "save_progress") =>
              /\ mastery_score[s] = eval_result[s].score
              /\ score[s] = eval_result[s].score
        /\ CalledOp(s, "agent_curriculum") =>
              /\ mastery_score[s] = eval_result[s].score
              /\ user_id[s] # None =>
                    \/ save_failed[s]
                    \/ \E i \in 1..Len(logs) :
                          /\ origin[i].session = s
                          /\ \A j \in (i + 1)..Len(logs) : origin[j].session # s
                          /\ <<logs[i].user_id, logs[i].topic, logs[i].difficulty,
                               logs[i].score>> = SavesOf(s)[1].args
        /\ pc[s] = "rerun" =>
              /\ OpsOf(s) = CycleOrder(user_id[s] # None)
              /\ history[s][Len(history[s])].role = "assistant"
              /\ history[s][Len(history[s]) - 1].role = "user"

\* A logged-in session has completed a cycle with all five calls while the
\* other session was writing its own row.
C14_Witness ==
    \E s \in Sessions : \E t \in Sessions \ {s} :
        /\ pc[s] = "rerun" /\ user_id[s] # None /\ Len(trace[s]) = 5
        /\ pc[t] = "adapt" /\ user_id[t] # None
        /\ Len(logs) = 2 /\ origin[1].session = s

\* C15: a session that has a name typed and is past get_or_create_user has
\* not been stopped by the store: no IntegrityError, and it holds the id of
\* the one users row of its name, also when another session inserted that
\* name between this session's SELECT and INSERT.
C15_ConcurrentFirstLoginsBothSucceed ==
    \A s \in Sessions :
        (username[s] # "" /\ pc[s] \notin {"new", "idle", "insert"}
         /\ error[s] # "OperationalError") =>
            /\ error[s] # "IntegrityError"
            /\ RowsNamed(username[s]) # {}
            /\ user_id[s] = UserIdOfName(username[s])

RowsBy(s) == {i \in 1..Len(logs) : origin[i].session = s}

\* The tutor turns of completed cycles: the assistant turns after the greeting.
ComposedTurns(s) ==
    {k \in 2..Len(history[s]) : history[s][k].role = "assistant"}

\* C16: a cycle adds at most one logs row; a completed cycle of a bound user
\* adds exactly one; a cycle without a bound user adds none and still
\* advances topic and history; and between cycles every row a session wrote
\* belongs to one of its completed cycles, so that a user's rows are as many
\* as the completed cycles.
C16_OneEntryPerCompletedCycle ==
    \A s \in Sessions :
        /\ Len(SavesOf(s)) <= 1
        /\ (pc[s] = "rerun" /\ user_id[s] # None) => Len(SavesOf(s)) = 1
        /\ user_id[s] = None => SavesOf(s) = <<>>
        /\ (pc[s] = "rerun" /\ user_id[s] = None) =>
              /\ current_topic[s] = plan[s].next_topic
              /\ history[s][Len(history[s])].role = "assistant"
        /\ pc[s] \in {"idle", "done", "rerun"} =>
              Cardinality(RowsBy(s)) <= Cardinality(ComposedTurns(s))

Greeting == [role |-> "assistant",
             content |-> [lesson |-> agent_tutor(DefaultTopic, DefaultDifficulty)]]

\* C17: the first lesson is given once per session.  A history that is empty
\* goes with the default topic and difficulty; a history that is not starts
\* with the tutor turn of the lesson for ("Python Basics", "Beginner"); the
\* greeting step only acts on an empty history of a session with a client
\* and makes that turn its one entry; a history once filled is never empty
\* again and keeps its first turn; no cycle runs on an empty history.
C17_FirstLessonOnce ==
    /\ [](\A s \in Sessions :
            /\ history[s] = <<>> =>
                  current_topic[s] = DefaultTopic /\ difficulty[s] = DefaultDifficulty
            /\ history[s] # <<>> => history[s][1] = Greeting
            /\ \A k \in 2..Len(history[s]) : history[s][k] # Greeting
            /\ pc[s] \in {"transcribe", "evaluate", "save", "adapt", "teach", "rerun"}
                  => history[s] # <<>>)
    /\ [][\A s \in Sessions :
            /\ (pc[s] = "greet" /\ history'[s] # history[s]) =>
                  /\ history[s] = <<>> /\ client[s]
                  /\ history'[s] = <<Greeting>>
            /\ history[s] # <<>> =>
                  /\ history'[s] # <<>>
                  /\ history'[s][1] = history[s][1]]_vars

\* A later run of a greeted session passed the greeting step without a second
\* greeting and is in its second cycle, on a topic the curriculum chose.
C17_Witness ==
    \E s \in Sessions :
        /\ pc[s] = "transcribe"
        /\ Len(history[s]) = 3
        /\ history[s][1] = Greeting
        /\ current_topic[s] = "Loops"

TutorCalls(s) == SelectSeq(trace[s], LAMBDA c : c.op = "agent_tutor")

\* C18: the lesson of a cycle is asked for the topic and difficulty of that
\* cycle's plan, and the tutor turn of a completed cycle is the score, then
\* the feedback, then that lesson.
C18_LessonForNewTopicAfterGrade ==
    \A s \in Sessions :
        /\ \A k \in 1..Len(TutorCalls(s)) :
              TutorCalls(s)[k].args = <<plan[s].next_topic, plan[s].difficulty>>
        /\ pc[s] = "rerun" =>
              /\ Len(TutorCalls(s)) = 1
              /\ history[s][Len(history[s])] =
                    [role |-> "assistant",
                     content |-> <<[score |-> eval_result[s].score],
                                   [feedback |-> eval_result[s].feedback],
                                   [lesson |-> [topic |-> plan[s].next_topic,
                                                difficulty |-> plan[s].difficulty]]>>]

\* A completed cycle graded on "Python Basics" whose lesson is on "Loops".
C18_Witness ==
    \E s \in Sessions :
        /\ pc[s] = "rerun"
        /\ cycle_start[s] = [topic |-> "Python Basics", difficulty |-> "Beginner"]
        /\ plan[s] = [next_topic |-> "Loops", difficulty |-> "Intermediate"]
        /\ eval_result[s].score = 150
        /\ Len(history[s]) = 3

\* C19: no step removes or changes a users row, a logs row or a history
\* entry: every step, also one that ends a run with an exception, leaves
\* the users table, the logs table and each session's history as a prefix of
\* what they are afterwards.
C19_StoreAndTranscriptAppendOnly ==
    [][/\ IsPrefix(users, users')
       /\ IsPrefix(logs, logs')
       /\ \A s \in Sessions : IsPrefix(history[s], history'[s])]_vars

\* Both tables and a transcript have grown and a run has just been ended by
\* an exception after its row was written.
C19_Witness ==
    \E s \in Sessions :
        /\ Len(users) = 2
        /\ Len(logs) = 2
        /\ Len(history[s]) = 4
        /\ pc[s] = "done" /\ error[s] # "none"
        /\ CalledOp(s, "save_progress")

\* C20: whenever a session has no cycle in flight, its history is empty or
\* alternates tutor, learner, tutor, ... from a tutor turn to a tutor turn,
\* also after cycles that a failure aborted.
C20_HistoryAlternates ==
    \A s \in Sessions :
        pc[s] \in {"new", "idle", "insert", "greet", "done", "rerun"} =>
            \/ history[s] = <<>>
            \/ /\ Len(history[s]) % 2 = 1
               /\ \A k \in 1..Len(history[s]) :
                     history[s][k].role = IF k % 2 = 1 THEN "assistant" ELSE "user"

====
